---- MODULE Spec2Model ----
(***************************************************************************)
(* A model of scripts/openai_quota_guard.py: the quota record kept in      *)
(* ~/.codex/openai_quota.json, the daily rollover applied by load_state,   *)
(* the non-atomic save_state, and the four commands (status, set-plan,     *)
(* reset, request) run as separate invocations against the one file.       *)
(***************************************************************************)
EXTENDS Integers, FiniteSets, Sequences, TLC

VARIABLES
    today,   \* what date.today() returns now, as a day number
    file,    \* the content of STATE_FILE on disk
    proc,    \* one record per invocation slot: position and locals
    nInv,    \* number of invocations started so far
    durable, \* history: the last content the file held in full, i.e. what
             \* it held before the save now under way, if any, emptied it
    ledger   \* history: the tokens of the requests admitted and saved so
             \* far today, per bucket, kept while the day is one of plain
             \* sequential use (see Noted and NextDay)

vars == <<today, file, proc, nInv, durable, ledger>>

----------------------------------------------------------------------------
(* Bounds of the model *)

MaxDay == 2

MaxInvocations == 4

\* The invocation slots: two processes can run against the file at once
Procs == {1, 2}

Days == 0 .. MaxDay

----------------------------------------------------------------------------
(* The registry: DAILY_LIMITS and MODEL_BUCKETS *)

DAILY_LIMITS == ("tokens_250k" :> 250000) @@ ("tokens_2_5m" :> 2500000)

BucketIds == DOMAIN DAILY_LIMITS

MODEL_BUCKETS ==
    ("gpt-5.1" :> "tokens_250k") @@ ("gpt-5.1-codex" :> "tokens_250k") @@
    ("gpt-5" :> "tokens_250k") @@ ("gpt-5-codex" :> "tokens_250k") @@
    ("gpt-5-chat-latest" :> "tokens_250k") @@ ("gpt-4.1" :> "tokens_250k") @@
    ("gpt-4o" :> "tokens_250k") @@ ("o1" :> "tokens_250k") @@
    ("o3" :> "tokens_250k") @@
    ("gpt-5.1-codex-mini" :> "tokens_2_5m") @@ ("gpt-5-mini" :> "tokens_2_5m") @@
    ("gpt-5-nano" :> "tokens_2_5m") @@ ("gpt-4.1-mini" :> "tokens_2_5m") @@
    ("gpt-4.1-nano" :> "tokens_2_5m") @@ ("gpt-4o-mini" :> "tokens_2_5m") @@
    ("o3-mini" :> "tokens_2_5m") @@ ("o4-mini" :> "tokens_2_5m") @@
    ("codex-mini-latest" :> "tokens_2_5m")

\* Python's None, as returned by dict.get for a missing key
None == "None"

\* A lookup that puts a name missing from the allowlist in the larger bucket
bucket_for_model_DefaultBucket(model) ==
    IF model \in DOMAIN MODEL_BUCKETS THEN MODEL_BUCKETS[model]
    ELSE "tokens_2_5m"

bucket_for_model(model) ==
    IF model \in DOMAIN MODEL_BUCKETS THEN MODEL_BUCKETS[model] ELSE None

----------------------------------------------------------------------------
(* Inputs the invocations are run with *)

\* --model arguments as typed: exact names, padded / upper-case spellings,
\* and names that are not on the allowlist
ModelChoices == {"gpt-5", " GPT-5 ", "gpt-5-mini", "O3-MINI", "gpt-1"}

\* args.model.strip().lower() on the arguments above; a name that is already
\* stripped and lower-case is returned as it is
StripLower(model) ==
    CASE model = " GPT-5 " -> "gpt-5"
      [] model = "O3-MINI" -> "o3-mini"
      [] OTHER -> model

\* --tokens arguments of request
TokenChoices == {-5, 0, 100, 249900, 250001, 2500000}

\* tokens arguments of set-plan
PlanChoices == {-5, 0, 500}

----------------------------------------------------------------------------
(* The in-memory record (the dict load_state returns) and the file *)

AllKeys == {"date", "buckets", "plan_tokens_left"}

\* state.get("date") of an object without the key (Python's None): no day
NoDate == -1

EmptyMap == [b \in {} |-> 0]

default_state(t) ==
    [date |-> t, buckets |-> DAILY_LIMITS, plan_tokens_left |-> 0]

\* What is on disk.  kind is one of
\*   "absent"       no file
\*   "unreadable"   the file exists and open("r") raises IOError
\*   "undecodable"  bytes that are not UTF-8
\*   "unparseable"  text that is not JSON (an empty or cut-off file included)
\*   "nonobject"    JSON whose top level is not an object ([], 3, null)
\*   "object"       a JSON object; keys are the keys it has, bucketsIsMap
\*                  tells whether the value under "buckets" is an object
RawFile(kind, keys, d, buckets, isMap, plan) ==
    [kind |-> kind, keys |-> keys, date |-> d, buckets |-> buckets,
     bucketsIsMap |-> isMap, plan_tokens_left |-> plan]

NonJson(kind) == RawFile(kind, {}, NoDate, EmptyMap, TRUE, 0)

Absent == NonJson("absent")

\* open("w") leaves an empty file until the buffered text is flushed
Truncated == NonJson("unparseable")

\* json.dump(state, f, indent=2) of a dict load_state returned
Serialize(state) ==
    RawFile("object", AllKeys, state.date, state.buckets, TRUE,
            state.plan_tokens_left)

----------------------------------------------------------------------------
(* load_state *)

\* What a call returns: the dict, or the exception that escapes it
Returned(state) == [ok |-> TRUE, state |-> state, exc |-> "none"]

Raised(exc, t) == [ok |-> FALSE, state |-> default_state(t), exc |-> exc]

\* state.get("date") and state.get("plan_tokens_left", 0) on the parsed object
GetDate(raw) == IF "date" \in raw.keys THEN raw.date ELSE NoDate

GetPlan(raw) ==
    IF "plan_tokens_left" \in raw.keys THEN raw.plan_tokens_left ELSE 0

\* A rollover that restamps the record and keeps its balances
Rollover_KeepsBuckets(raw, t) ==
    IF GetDate(raw) # t
    THEN [raw EXCEPT !.keys = @ \cup {"date"}, !.date = t]
    ELSE raw

\* A rollover that takes the default record whole, plan tokens included
Rollover_DropsPlan(raw, t) ==
    IF GetDate(raw) # t
    THEN RawFile("object", AllKeys, t, DAILY_LIMITS, TRUE, 0)
    ELSE raw

\* A rollover that moves the record one day on from its own date instead of
\* to the current day
Rollover_OneDayOn(raw, t) ==
    IF GetDate(raw) # t
    THEN RawFile("object", AllKeys, GetDate(raw) + 1, DAILY_LIMITS, TRUE,
                 GetPlan(raw))
    ELSE raw

\* lines 63-66: a record of another day is replaced by a default record that
\* keeps the plan tokens
Rollover(raw, t) ==
    IF GetDate(raw) # t
    THEN RawFile("object", AllKeys, t, DAILY_LIMITS, TRUE, GetPlan(raw))
    ELSE raw

\* line 67: state.setdefault("buckets", DAILY_LIMITS.copy())
DefaultBuckets(raw) ==
    IF "buckets" \in raw.keys
    THEN raw
    ELSE [raw EXCEPT !.keys = @ \cup {"buckets"}, !.buckets = DAILY_LIMITS,
                     !.bucketsIsMap = TRUE]

\* A fill that gives a missing bucket an empty balance
FillBuckets_ZeroFill(buckets) ==
    [b \in (DOMAIN buckets) \cup BucketIds |->
        IF b \in DOMAIN buckets THEN buckets[b] ELSE 0]

\* lines 68-69: state["buckets"].setdefault(bucket, limit) for every bucket
FillBuckets(buckets) ==
    [b \in (DOMAIN buckets) \cup BucketIds |->
        IF b \in DOMAIN buckets THEN buckets[b] ELSE DAILY_LIMITS[b]]

\* lines 63-71, on the object json.load returned
Reconcile(raw, t) ==
    LET s == DefaultBuckets(Rollover(raw, t))
    IN  IF ~s.bucketsIsMap
        THEN Raised("AttributeError", t)
        ELSE Returned([date |-> s.date,
                       buckets |-> FillBuckets(s.buckets),
                       plan_tokens_left |-> GetPlan(s)])

load_state(f, t) ==
    CASE f.kind = "absent" -> Returned(default_state(t))
      [] f.kind \in {"unreadable", "unparseable"} -> Returned(default_state(t))
      [] f.kind = "undecodable" -> Raised("UnicodeDecodeError", t)
      [] f.kind = "nonobject" -> Raised("AttributeError", t)
      [] OTHER -> Reconcile(f, t)

----------------------------------------------------------------------------
(* cmd_request: the admission decision, lines 123-140 *)

\* The decision without the check of lines 131-133: any token count goes on
\* to the balance check
Decide_AnyCost(state, model, tokens) ==
    LET bucket == bucket_for_model(model)
    IN  IF state.plan_tokens_left > 0 THEN "DeniedByPlan"
        ELSE IF bucket = None THEN "DeniedUnknownResource"
        ELSE IF tokens > state.buckets[bucket] THEN "DeniedOverLimit"
        ELSE "Admitted"

\* The decision with the balance compared against the daily limit instead of
\* the remaining balance
Decide_LimitNotBalance(state, model, tokens) ==
    LET bucket == bucket_for_model(model)
    IN  IF state.plan_tokens_left > 0 THEN "DeniedByPlan"
        ELSE IF bucket = None THEN "DeniedUnknownResource"
        ELSE IF tokens <= 0 THEN "DeniedInvalidCost"
        ELSE IF tokens > DAILY_LIMITS[bucket] THEN "DeniedOverLimit"
        ELSE "Admitted"

\* The decision with the allowlist consulted before the plan allowance
Decide_ResourceBeforePlan(state, model, tokens) ==
    LET bucket == bucket_for_model(model)
    IN  IF bucket = None THEN "DeniedUnknownResource"
        ELSE IF state.plan_tokens_left > 0 THEN "DeniedByPlan"
        ELSE IF tokens <= 0 THEN "DeniedInvalidCost"
        ELSE IF tokens > state.buckets[bucket] THEN "DeniedOverLimit"
        ELSE "Admitted"

\* The decision with the cost validated before the allowlist is consulted
Decide_CostBeforeResource(state, model, tokens) ==
    LET bucket == bucket_for_model(model)
    IN  IF state.plan_tokens_left > 0 THEN "DeniedByPlan"
        ELSE IF tokens <= 0 THEN "DeniedInvalidCost"
        ELSE IF bucket = None THEN "DeniedUnknownResource"
        ELSE IF tokens > state.buckets[bucket] THEN "DeniedOverLimit"
        ELSE "Admitted"

Decide(state, model, tokens) ==
    LET bucket == bucket_for_model(model)
    IN  IF state.plan_tokens_left > 0 THEN "DeniedByPlan"
        ELSE IF bucket = None THEN "DeniedUnknownResource"
        ELSE IF tokens <= 0 THEN "DeniedInvalidCost"
        ELSE IF tokens > state.buckets[bucket] THEN "DeniedOverLimit"
        ELSE "Admitted"

\* A debit taken from every bucket instead of the resource's own
Debit_EveryBucket(state, bucket, tokens) ==
    [state EXCEPT !.buckets = [b \in DOMAIN @ |-> @[b] - tokens]]

\* An admission that takes nothing from the balance
Debit_NoCharge(state, bucket, tokens) == state

\* line 141: state["buckets"][bucket] = remaining - args.tokens
Debit(state, bucket, tokens) ==
    [state EXCEPT !.buckets[bucket] = @ - tokens]

----------------------------------------------------------------------------
(* Invocations.  An invocation runs main() once: it loads, decides, and   *)
(* either returns or goes on to save_state, which opens the file for      *)
(* writing (emptying it) and then writes the text.  Its exit status is -1 *)
(* until it has returned.                                                 *)

Idle ==
    [pc |-> "idle", id |-> 0, cmd |-> "none", model |-> "", tokens |-> 0,
     bucket |-> None, loaded |-> default_state(0),
     state |-> default_state(0), outcome |-> "none", exit |-> -1]

CanStart(p) ==
    /\ proc[p].pc \in {"idle", "done"}
    /\ nInv < MaxInvocations

\* The parsed command line: the command and its arguments (id numbers the
\* invocations in the order they start)
Args(cmd, model, tokens) ==
    [Idle EXCEPT !.id = nInv + 1, !.cmd = cmd, !.model = model,
                 !.tokens = tokens]

\* The ledger of a day that began from a fresh or rolled-over record, and of
\* a day on which the tokens admitted are no longer being counted
FreshLedger == [clean |-> TRUE, spent |-> [b \in BucketIds |-> 0]]

Fouled == [clean |-> FALSE, spent |-> [b \in BucketIds |-> 0]]

\* Another invocation is between its load and the end of its save
Overlaps(p) == \E o \in Procs \ {p} : proc[o].pc \in {"saving", "writing"}

\* An invocation of cmd starts: a reset, or a start while another
\* invocation is under way, ends the day's plain sequential use
Noted(p, cmd) ==
    ledger' = IF cmd = "reset" \/ Overlaps(p) THEN Fouled ELSE ledger

\* An admitted request's save completes: its tokens are counted, on the day
\* its record is dated with
Counted(p) ==
    ledger' = IF /\ ledger.clean
                 /\ proc[p].cmd = "request"
                 /\ proc[p].state.date = today
              THEN [ledger EXCEPT !.spent[proc[p].bucket] = @ + proc[p].tokens]
              ELSE ledger

\* The invocation returns status `exit` without touching the file
Return(p, args, loaded, outcome, exit) ==
    /\ proc' = [proc EXCEPT ![p] =
                  [args EXCEPT !.pc = "done", !.loaded = loaded,
                               !.state = loaded, !.outcome = outcome,
                               !.exit = exit]]
    /\ nInv' = nInv + 1
    /\ Noted(p, args.cmd)
    /\ UNCHANGED <<today, file, durable>>

\* The invocation reaches save_state(state)
GoSave(p, args, loaded, state, outcome) ==
    /\ proc' = [proc EXCEPT ![p] =
                  [args EXCEPT !.pc = "saving", !.loaded = loaded,
                               !.state = state, !.outcome = outcome]]
    /\ nInv' = nInv + 1
    /\ Noted(p, args.cmd)
    /\ UNCHANGED <<today, file, durable>>

\* An exception escapes load_state: traceback, exit status 1
LoadCrash(p, args, r) == Return(p, args, r.state, r.exc, 1)

cmd_status(p) ==
    /\ CanStart(p)
    /\ LET args == Args("status", "", 0)
           r == load_state(file, today)
       IN  IF ~r.ok
           THEN LoadCrash(p, args, r)
           ELSE Return(p, args, r.state, "StatusShown", 0)

\* set-plan without the check of line 103
cmd_set_plan_AnySign(p, tokens) ==
    /\ CanStart(p)
    /\ LET args == Args("set-plan", "", tokens)
           r == load_state(file, today)
       IN  IF ~r.ok
           THEN LoadCrash(p, args, r)
           ELSE GoSave(p, args, r.state,
                       [r.state EXCEPT !.plan_tokens_left = tokens],
                       "PlanSet")

cmd_set_plan(p, tokens) ==
    /\ CanStart(p)
    /\ LET args == Args("set-plan", "", tokens)
           r == load_state(file, today)
       IN  IF tokens < 0
           THEN Return(p, args, default_state(0), "PlanRejected", 1)
           ELSE IF ~r.ok
           THEN LoadCrash(p, args, r)
           ELSE GoSave(p, args, r.state,
                       [r.state EXCEPT !.plan_tokens_left = tokens],
                       "PlanSet")

\* reset without line 115: the default record is saved as it is
cmd_reset_DropsPlan(p) ==
    /\ CanStart(p)
    /\ LET args == Args("reset", "", 0)
           state == default_state(today)
           r == load_state(file, today)
       IN  IF ~r.ok
           THEN LoadCrash(p, args, r)
           ELSE GoSave(p, args, r.state, state, "ResetDone")

cmd_reset(p) ==
    /\ CanStart(p)
    /\ LET args == Args("reset", "", 0)
           state == default_state(today)
           r == load_state(file, today)
       IN  IF ~r.ok
           THEN LoadCrash(p, args, r)
           ELSE GoSave(p, args, r.state,
                       [state EXCEPT
                          !.plan_tokens_left = r.state.plan_tokens_left],
                       "ResetDone")

\* A denial that still goes on to save the record it loaded
RequestDenied_Saves(p, args, loaded, decision) ==
    GoSave(p, args, loaded, loaded, decision)

\* lines 123-140: each denial prints its reason and returns 1
RequestDenied(p, args, loaded, decision) ==
    Return(p, args, loaded, decision, 1)

cmd_request(p, model_arg, tokens) ==
    /\ CanStart(p)
    /\ LET model == StripLower(model_arg)
           bucket == bucket_for_model(model)
           args == [Args("request", model_arg, tokens) EXCEPT
                      !.bucket = bucket]
           r == load_state(file, today)
           decision == Decide(r.state, model, tokens)
       IN  IF ~r.ok
           THEN LoadCrash(p, args, r)
           ELSE IF decision # "Admitted"
           THEN RequestDenied(p, args, r.state, decision)
           ELSE GoSave(p, args, r.state,
                       Debit(r.state, bucket, tokens), "Admitted")

\* save_state lines 74-76: stamp the date, open("w") empties the file
SaveOpen(p) ==
    /\ proc[p].pc = "saving"
    /\ proc' = [proc EXCEPT ![p].pc = "writing", ![p].state.date = today]
    /\ file' = Truncated
    /\ UNCHANGED <<today, nInv, durable, ledger>>

\* A save that takes a request's debit from the balance last written to the
\* file instead of writing the balance the invocation computed from its load
SaveWrite_Rebased(p) ==
    /\ proc[p].pc = "writing"
    /\ LET q == proc[p]
           cur == load_state(durable, today).state
       IN  file' = Serialize(IF q.cmd = "request"
                             THEN [q.state EXCEPT !.buckets[q.bucket] =
                                     cur.buckets[q.bucket] - q.tokens]
                             ELSE q.state)
    /\ durable' = file'
    /\ proc' = [proc EXCEPT ![p].pc = "done", ![p].exit = 0]
    /\ Counted(p)
    /\ UNCHANGED <<today, nInv>>

\* save_state line 77 and the close: the whole text reaches the file, and
\* the command prints its message and returns 0
SaveWrite(p) ==
    /\ proc[p].pc = "writing"
    /\ file' = Serialize(proc[p].state)
    /\ durable' = file'
    /\ proc' = [proc EXCEPT ![p].pc = "done", ![p].exit = 0]
    /\ Counted(p)
    /\ UNCHANGED <<today, nInv>>

\* Midnight passes.  The new day begins from a rolled-over record unless an
\* invocation that loaded before midnight is still to stamp its record, which
\* save_state will date with the new day, or the file is already dated with
\* the new day
NextDay ==
    /\ today < MaxDay
    /\ today' = today + 1
    /\ ledger' = IF /\ \A p \in Procs : proc[p].pc # "saving"
                    /\ load_state(file, today + 1).ok
                    /\ load_state(file, today + 1).state.buckets = DAILY_LIMITS
                 THEN FreshLedger
                 ELSE Fouled
    /\ UNCHANGED <<file, proc, nInv, durable>>

----------------------------------------------------------------------------
(* One caller at a time, no I/O faults, starting without a state file *)

Init ==
    /\ today = 0
    /\ file = Absent
    /\ proc = [p \in Procs |-> Idle]
    /\ nInv = 0
    /\ durable = Absent
    /\ ledger = FreshLedger

Run(p) ==
    \/ cmd_status(p)
    \/ \E n \in PlanChoices : cmd_set_plan(p, n)
    \/ cmd_reset(p)
    \/ \E m \in ModelChoices, n \in TokenChoices : cmd_request(p, m, n)
    \/ SaveOpen(p)
    \/ SaveWrite(p)

Next == Run(1) \/ NextDay

Spec == Init /\ [][Next]_vars

----------------------------------------------------------------------------
(* Two invocations at once, and saves that fail *)

\* ensure_state_dir or open("w") raises IOError: nothing is written, the
\* exception escapes main() and the status is 1
SaveOpenFails(p) ==
    /\ proc[p].pc = "saving"
    /\ proc' = [proc EXCEPT ![p].pc = "done", ![p].outcome = "SaveFailed",
                            ![p].exit = 1]
    /\ UNCHANGED <<today, file, nInv, durable, ledger>>

\* The write or the close raises IOError (disk full), or the process is
\* stopped, after open("w") emptied the file: the file stays empty
SaveInterrupted(p) ==
    /\ proc[p].pc = "writing"
    /\ proc' = [proc EXCEPT ![p].pc = "done", ![p].outcome = "SaveFailed",
                            ![p].exit = 1]
    /\ UNCHANGED <<today, file, nInv, durable, ledger>>

\* The arguments the concurrent invocations are run with
ConcModelChoices == {"gpt-5", "gpt-1"}

ConcTokenChoices == {100, 249900}

ConcPlanChoices == {500}

RunConc(p) ==
    \/ cmd_status(p)
    \/ \E n \in ConcPlanChoices : cmd_set_plan(p, n)
    \/ cmd_reset(p)
    \/ \E m \in ConcModelChoices, n \in ConcTokenChoices : cmd_request(p, m, n)
    \/ SaveOpen(p)
    \/ SaveWrite(p)
    \/ SaveOpenFails(p)
    \/ SaveInterrupted(p)

NextConc == \E p \in Procs : RunConc(p)

SpecConc == Init /\ [][NextConc]_vars

----------------------------------------------------------------------------
(* One caller at a time, with the state file edited, damaged or removed   *)
(* from outside between steps                                             *)

\* The objects an outside edit leaves: every key, or one or all of them
\* missing; dated day 0 or day 1; one bucket entry or both; "buckets" an
\* object or a list
TamperKeys ==
    {AllKeys, AllKeys \ {"date"}, AllKeys \ {"buckets"},
     AllKeys \ {"plan_tokens_left"}, {}}

TamperBuckets ==
    {"tokens_250k" :> 10, ("tokens_250k" :> 10) @@ ("tokens_2_5m" :> 2500000)}

\* A value the file can hold after outside interference
TamperChoices ==
    {NonJson(k) : k \in {"absent", "unreadable", "undecodable",
                         "unparseable", "nonobject"}}
    \cup {RawFile("object", keys, IF "date" \in keys THEN d ELSE NoDate,
                  IF "buckets" \in keys /\ isMap THEN buckets ELSE EmptyMap,
                  IF "buckets" \in keys THEN isMap ELSE TRUE,
                  IF "plan_tokens_left" \in keys THEN 500 ELSE 0) :
            keys \in TamperKeys, d \in {0, 1}, buckets \in TamperBuckets,
            isMap \in BOOLEAN}

Tamper ==
    /\ \E c \in TamperChoices : file' = c
    /\ durable' = file'
    /\ ledger' = Fouled
    /\ UNCHANGED <<today, proc, nInv>>

EnvModelChoices == {"gpt-5", "gpt-1"}

EnvTokenChoices == {0, 10, 100}

RunEnv(p) ==
    \/ cmd_status(p)
    \/ \E n \in PlanChoices : cmd_set_plan(p, n)
    \/ cmd_reset(p)
    \/ \E m \in EnvModelChoices, n \in EnvTokenChoices : cmd_request(p, m, n)
    \/ SaveOpen(p)
    \/ SaveWrite(p)

NextEnv == RunEnv(1) \/ Tamper \/ NextDay

SpecEnv == Init /\ [][NextEnv]_vars

----------------------------------------------------------------------------
(* Steps the properties speak about *)

\* In this step invocation slot p ran a command up to its return or its save
Started(p) == proc'[p].id # proc[p].id

\* ... and the command called load_state
Loaded(p) == Started(p) /\ proc'[p].outcome # "PlanRejected"

\* In this step p's save_state completed and the command returned 0
Committed(p) ==
    /\ proc[p].pc = "writing"
    /\ proc'[p].pc = "done"
    /\ proc'[p].exit = 0

Denials ==
    {"DeniedByPlan", "DeniedUnknownResource", "DeniedInvalidCost",
     "DeniedOverLimit"}

----------------------------------------------------------------------------
(* Properties *)

\* C1: admission never takes a balance below zero.  Every balance in the
\* persisted record is >= 0; an admitted request for t tokens leaves
\* remainingAfter = remainingBefore - t >= 0; a request for more than the
\* remaining balance returns 1 and leaves the file as it was.
C1_NeverBelowZero ==
    [][ /\ file'.kind = "object" =>
              \A b \in DOMAIN file'.buckets : file'.buckets[b] >= 0
        /\ \A p \in Procs :
              (Loaded(p) /\ proc'[p].cmd = "request"
                         /\ proc'[p].bucket # None) =>
                 LET q == proc'[p]
                     before == q.loaded.buckets[q.bucket]
                 IN  /\ q.tokens > before =>
                           /\ q.pc = "done"
                           /\ q.exit = 1
                           /\ q.outcome \in Denials
                           /\ file' = file
                     /\ q.outcome = "Admitted" =>
                           /\ q.state.buckets[q.bucket] = before - q.tokens
                           /\ q.state.buckets[q.bucket] >= 0
      ]_vars

\* A bucket was drained to exactly zero and a further request was refused
C1_Witness ==
    /\ file.kind = "object"
    /\ file.buckets["tokens_250k"] = 0
    /\ proc[1].pc = "done"
    /\ proc[1].outcome = "DeniedOverLimit"
    /\ proc[1].bucket = "tokens_250k"
    /\ proc[1].tokens = 100

\* C2: plan-allowance short-circuit.  Whenever the record load_state returns
\* has plan_tokens_left > 0, a request is denied by plan whatever the model
\* (known or not) and the token count (positive, zero or negative), and the
\* file, hence every balance, is left as it was.
C2_PlanShortCircuit ==
    [][ \A p \in Procs :
          (/\ Started(p)
           /\ proc'[p].cmd = "request"
           /\ load_state(file, today).ok
           /\ load_state(file, today).state.plan_tokens_left > 0) =>
             /\ proc'[p].pc = "done"
             /\ proc'[p].outcome = "DeniedByPlan"
             /\ proc'[p].exit = 1
             /\ file' = file
      ]_vars

\* Denied by plan although the model is unknown and the cost is negative
C2_Witness ==
    /\ proc[1].pc = "done"
    /\ proc[1].outcome = "DeniedByPlan"
    /\ proc[1].bucket = None
    /\ proc[1].tokens < 0
    /\ file.kind = "object"
    /\ file.plan_tokens_left = 500

\* C3: an admitted request for t tokens on a model of bucket B, with balance
\* r loaded, persists a record with B = r - t, the other balances and the
\* plan tokens as loaded, and load_state on the day of the save returns
\* exactly that record.
C3_AdmittedDebitPersisted ==
    [][ \A p \in Procs :
          (Committed(p) /\ proc[p].cmd = "request") =>
             LET q == proc[p]
             IN  /\ file'.kind = "object"
                 /\ file'.buckets =
                       [b \in BucketIds |->
                          IF b = q.bucket
                          THEN q.loaded.buckets[b] - q.tokens
                          ELSE q.loaded.buckets[b]]
                 /\ file'.plan_tokens_left = q.loaded.plan_tokens_left
                 /\ load_state(file', file'.date) =
                       Returned([date |-> file'.date,
                                 buckets |-> file'.buckets,
                                 plan_tokens_left |-> file'.plan_tokens_left])
                 /\ today' = file'.date =>
                       load_state(file', today').state.buckets[q.bucket]
                          = q.loaded.buckets[q.bucket] - q.tokens
      ]_vars

\* Fresh state, request of 100 tokens on gpt-5: 249900 on the next load
C3_Witness ==
    /\ proc[1].pc = "done"
    /\ proc[1].id = 1
    /\ proc[1].outcome = "Admitted"
    /\ proc[1].exit = 0
    /\ proc[1].tokens = 100
    /\ proc[1].loaded.buckets["tokens_250k"] = 250000
    /\ file.date = today
    /\ load_state(file, today).state.buckets["tokens_250k"] = 249900

\* C4: the checks run in a fixed order: plan allowance, then allowlist, then
\* cost, then balance.  The outcome of a request is the one of the earliest
\* check that fails, and Admitted when none fails.
C4_CheckOrder ==
    \A p \in Procs :
       (proc[p].cmd = "request" /\ proc[p].pc # "idle") =>
          LET q == proc[p]
              planLeft == q.loaded.plan_tokens_left > 0
              unknown == q.bucket = None
              badCost == q.tokens <= 0
              over == ~unknown /\ q.tokens > q.loaded.buckets[q.bucket]
          IN  /\ q.outcome \in Denials \cup {"Admitted"}
              /\ q.outcome = "DeniedByPlan" <=> planLeft
              /\ q.outcome = "DeniedUnknownResource" <=>
                    ~planLeft /\ unknown
              /\ q.outcome = "DeniedInvalidCost" <=>
                    ~planLeft /\ ~unknown /\ badCost
              /\ q.outcome = "DeniedOverLimit" <=>
                    ~planLeft /\ ~unknown /\ ~badCost /\ over
              /\ q.outcome = "Admitted" <=>
                    ~planLeft /\ ~unknown /\ ~badCost /\ ~over

\* Unknown model and a cost <= 0 at once: the allowlist check answers
C4_Witness ==
    /\ proc[1].pc = "done"
    /\ proc[1].outcome = "DeniedUnknownResource"
    /\ proc[1].bucket = None
    /\ proc[1].tokens <= 0
    /\ proc[1].loaded.plan_tokens_left = 0

\* C5: a request changes the file only on the Admitted path.  A denial
\* returns 1 at once and leaves the file as it was; the file changes only in
\* a step of an invocation that is saving; and a finished request has status
\* 0 exactly when it was admitted and its record was written.
C5_OnlyAdmittedMutates ==
    [][ /\ \A p \in Procs :
              (Started(p) /\ proc'[p].cmd = "request"
                          /\ proc'[p].outcome \in Denials) =>
                 /\ proc'[p].pc = "done"
                 /\ proc'[p].exit = 1
                 /\ file' = file
        /\ file' # file =>
              \E p \in Procs :
                 /\ proc[p].pc \in {"saving", "writing"}
                 /\ proc'[p].pc # proc[p].pc
                 /\ proc[p].outcome \in {"Admitted", "PlanSet", "ResetDone"}
        /\ \A p \in Procs :
              (proc'[p].cmd = "request" /\ proc'[p].pc = "done") =>
                 /\ proc'[p].exit \in {0, 1}
                 /\ proc'[p].exit = 0 <=> proc'[p].outcome = "Admitted"
                 /\ (proc'[p].exit = 0 /\ proc[p].pc # "done") =>
                       file' = Serialize(proc'[p].state)
      ]_vars

\* A request denied against a record of an earlier day: the rollover it saw
\* was not written back
C5_Witness ==
    /\ proc[1].pc = "done"
    /\ proc[1].cmd = "request"
    /\ proc[1].outcome = "DeniedOverLimit"
    /\ proc[1].exit = 1
    /\ proc[1].loaded.date = today
    /\ file.kind = "object"
    /\ file.date # today

\* C6: rollover.  Whenever the file holds a record with plan tokens whose
\* date is not today's, however it came to be there, load_state returns
\* every bucket at its daily limit and the persisted plan tokens exactly,
\* and so does every invocation that loads it.
C6_Rollover ==
    [][ LET stale == /\ file.kind = "object"
                     /\ "plan_tokens_left" \in file.keys
                     /\ GetDate(file) # today
            fresh == [date |-> today, buckets |-> DAILY_LIMITS,
                      plan_tokens_left |-> file.plan_tokens_left]
        IN  stale =>
              /\ load_state(file, today) = Returned(fresh)
              /\ \A p \in Procs : Loaded(p) => proc'[p].loaded = fresh
      ]_vars

\* Yesterday's record with tokens_250k at 10 and 500 plan tokens, loaded
\* today as 250000 and 500
C6_Witness ==
    /\ today = 1
    /\ file = RawFile("object", AllKeys, 0,
                      ("tokens_250k" :> 10) @@ ("tokens_2_5m" :> 2500000),
                      TRUE, 500)
    /\ proc[1].pc = "done"
    /\ proc[1].cmd = "status"
    /\ proc[1].loaded.date = 1
    /\ proc[1].loaded.buckets["tokens_250k"] = 250000
    /\ proc[1].loaded.plan_tokens_left = 500
    /\ load_state(file, today).state = proc[1].loaded

\* C7: load_state never fails.  Whatever the file holds when an invocation
\* loads it, the invocation gets a record, a default one when the file is
\* absent, unreadable or not a record, and ends with one of its own
\* outcomes, never with an exception.
C7_LoadNeverFails ==
    [][ \A p \in Procs :
          Loaded(p) =>
             /\ proc'[p].outcome \notin {"AttributeError", "UnicodeDecodeError"}
             /\ file.kind # "object" =>
                   proc'[p].loaded = default_state(today)
      ]_vars

\* C8: no partial write is exposed.  Whatever an invocation loads is what
\* load_state gives for the complete record the file held before the save
\* under way, or for the complete record a save under way is writing: never
\* a record made up because the file was found emptied by a save that is
\* under way, has failed or was interrupted.
C8_NoPartialWrites ==
    [][ \A p \in Procs :
          Loaded(p) =>
             \/ proc'[p].loaded = load_state(durable, today).state
             \/ \E w \in Procs :
                   /\ proc[w].pc = "writing"
                   /\ proc'[p].loaded =
                         load_state(Serialize(proc[w].state), today).state
      ]_vars

\* C9: last writer wins.  The balance a request's save leaves in the file is
\* the balance that request loaded minus its own tokens, whatever other
\* invocations wrote between its load and its save; so two requests that
\* load the same balance are both admitted and the file shows only the
\* debit of the one that saved last.
C9_LastWriterWins ==
    [][ \A p \in Procs :
          (Committed(p) /\ proc[p].cmd = "request") =>
             /\ file'.kind = "object"
             /\ file'.buckets[proc[p].bucket] =
                   proc[p].loaded.buckets[proc[p].bucket] - proc[p].tokens
      ]_vars

\* Two requests on tokens_250k loaded the full balance on the same day and
\* were both admitted with status 0; the file shows the drop of one of them
\* only, and together they were granted more than the daily limit
C9_LostUpdate ==
    /\ \A p \in Procs :
          /\ proc[p].pc = "done"
          /\ proc[p].outcome = "Admitted"
          /\ proc[p].exit = 0
          /\ proc[p].bucket = "tokens_250k"
          /\ proc[p].loaded.date = today
          /\ proc[p].loaded.buckets["tokens_250k"] = 250000
    /\ file.kind = "object"
    /\ file.date = today
    /\ \E p \in Procs :
          file.buckets["tokens_250k"] = 250000 - proc[p].tokens
    /\ proc[1].tokens + proc[2].tokens
          > DAILY_LIMITS["tokens_250k"] - file.buckets["tokens_250k"]
    /\ proc[1].tokens + proc[2].tokens > DAILY_LIMITS["tokens_250k"]

\* C10: plan_tokens_left changes only through a set-plan that succeeds.
\* What an invocation loads is the persisted value, also across a change of
\* day (0 when there is no file yet); what a save writes is the loaded value
\* for request and reset and the given value for set-plan; and no step other
\* than the completion of a save puts a record in the file.
C10_PlanOnlyBySetPlan ==
    [][ /\ \A p \in Procs :
              Loaded(p) =>
                 proc'[p].loaded.plan_tokens_left =
                    (IF file.kind = "object" THEN file.plan_tokens_left ELSE 0)
        /\ \A p \in Procs :
              Committed(p) =>
                 /\ file'.kind = "object"
                 /\ file'.plan_tokens_left =
                       (IF proc[p].cmd = "set-plan"
                        THEN proc[p].tokens
                        ELSE proc[p].loaded.plan_tokens_left)
                 /\ durable.kind = "object" /\ proc[p].cmd # "set-plan" =>
                       file'.plan_tokens_left = durable.plan_tokens_left
        /\ (file' # file /\ file'.kind = "object") =>
              \E p \in Procs : Committed(p)
        /\ \A p \in Procs : Loaded(p) => file.kind \in {"absent", "object"}
      ]_vars

\* A reset on a later day than the set-plan 500: the plan tokens are still
\* 500 in the record it wrote
C10_Witness ==
    /\ proc[1].pc = "done"
    /\ proc[1].cmd = "reset"
    /\ proc[1].exit = 0
    /\ proc[1].loaded.plan_tokens_left = 500
    /\ proc[1].loaded.date > 0
    /\ file.kind = "object"
    /\ file.plan_tokens_left = 500
    /\ file.buckets = DAILY_LIMITS

\* C11: set-plan with a negative count returns 1 and leaves the file as it
\* was.  With a count n >= 0 it goes on to save a record with
\* plan_tokens_left = n, and when the record in the file is dated today the
\* balances it saves are the ones in the file.
C11_SetPlan ==
    [][ \A p \in Procs :
          /\ (Started(p) /\ proc'[p].cmd = "set-plan") =>
                IF proc'[p].tokens < 0
                THEN /\ proc'[p].pc = "done"
                     /\ proc'[p].outcome = "PlanRejected"
                     /\ proc'[p].exit = 1
                     /\ file' = file
                ELSE /\ proc'[p].pc = "saving"
                     /\ proc'[p].state.plan_tokens_left = proc'[p].tokens
                     /\ (file.kind = "object" /\ file.date = today) =>
                           proc'[p].state.buckets = file.buckets
          /\ (Committed(p) /\ proc[p].cmd = "set-plan") =>
                /\ proc[p].tokens >= 0
                /\ file'.kind = "object"
                /\ file'.plan_tokens_left = proc[p].tokens
                /\ file'.buckets = proc[p].state.buckets
                /\ file'.buckets = proc[p].loaded.buckets
      ]_vars

\* set-plan -5 was rejected after set-plan 500 and a debit of 100 had been
\* saved: the record still shows 500 and 249900
C11_Witness ==
    /\ proc[1].pc = "done"
    /\ proc[1].cmd = "set-plan"
    /\ proc[1].tokens = -5
    /\ proc[1].exit = 1
    /\ file.kind = "object"
    /\ file.plan_tokens_left = 500
    /\ file.buckets["tokens_250k"] = 249900

\* C12: reset, whatever record is in the file, saves a record stamped with
\* the day of the save in which every bucket is at its daily limit and the
\* plan tokens are the ones loaded: the record the rollover branch of
\* load_state makes of the file's record, so that a reset of a record that a
\* reset wrote the same day writes the same record again.
C12_Reset ==
    [][ \A p \in Procs :
          /\ (proc[p].pc = "saving" /\ proc'[p].pc = "writing") =>
                proc'[p].state.date = today
          /\ (Committed(p) /\ proc[p].cmd = "reset") =>
                LET stamp == proc[p].state.date
                    prior == IF durable.kind = "object"
                             THEN durable.plan_tokens_left ELSE 0
                IN  /\ file' = Serialize([date |-> stamp,
                                          buckets |-> DAILY_LIMITS,
                                          plan_tokens_left |-> prior])
                    /\ durable.kind = "object" =>
                          /\ file' = Rollover([durable EXCEPT !.date = NoDate],
                                              stamp)
                          /\ durable.date # stamp =>
                                Serialize(load_state(durable, stamp).state)
                                   = file'
                          /\ \A d \in Days \ {durable.date} :
                                /\ load_state(durable, d).state.buckets
                                      = file'.buckets
                                /\ load_state(durable, d).state.plan_tokens_left
                                      = file'.plan_tokens_left
                    /\ (/\ durable.kind = "object"
                        /\ durable.buckets = DAILY_LIMITS
                        /\ durable.date = stamp) => file' = durable
      ]_vars

\* A reset of a record with a debit and 500 plan tokens, saved the same day
C12_Witness ==
    /\ proc[1].pc = "done"
    /\ proc[1].cmd = "reset"
    /\ proc[1].exit = 0
    /\ proc[1].loaded.buckets["tokens_250k"] = 249900
    /\ proc[1].loaded.plan_tokens_left = 500
    /\ proc[1].loaded.date = today
    /\ file = Serialize([date |-> today, buckets |-> DAILY_LIMITS,
                         plan_tokens_left |-> 500])

\* C13: rollover is idempotent.  For whatever the file holds (no file, a
\* record of today or of another day, with or without a date, with all,
\* some or none of the bucket entries) and every day d, load_state applied
\* to the record load_state returned for day d returns that record again.
C13_ReconcileIdempotent ==
    \A d \in Days :
       LET once == load_state(file, d)
       IN  once.ok => load_state(Serialize(once.state), d) = once

\* A record without a date and with one bucket entry only was loaded on day
\* 1: the record returned is not the one in the file
C13_Witness ==
    /\ today = 1
    /\ file.kind = "object"
    /\ file.keys = AllKeys \ {"date"}
    /\ file.bucketsIsMap
    /\ DOMAIN file.buckets = {"tokens_250k"}
    /\ proc[1].pc = "done"
    /\ proc[1].cmd = "status"
    /\ proc[1].loaded = load_state(file, today).state
    /\ Serialize(proc[1].loaded) # file
    /\ proc[1].loaded.buckets["tokens_2_5m"] = 2500000

\* C14: a save that fails makes the whole invocation fail and its change is
\* not final.  When save_state raises in a request, set-plan or reset run
\* on its own, the status is not 0, and if the record it was saving differed
\* from the one it loaded in a balance or in the plan tokens, the next load
\* does not return those balances and plan tokens.
C14_SaveFailureNotFinal ==
    [][ \A p \in Procs :
          (/\ proc[p].pc \in {"saving", "writing"}
           /\ proc'[p].outcome = "SaveFailed"
           /\ \A o \in Procs \ {p} : proc[o].pc = "idle") =>
             LET q == proc[p]
                 next == load_state(file', today').state
                 changed ==
                    \/ q.state.buckets # q.loaded.buckets
                    \/ q.state.plan_tokens_left # q.loaded.plan_tokens_left
             IN  /\ proc'[p].pc = "done"
                 /\ proc'[p].exit # 0
                 /\ changed =>
                       ~ (/\ next.buckets = q.state.buckets
                          /\ next.plan_tokens_left = q.state.plan_tokens_left)
      ]_vars

\* C15: every bucket of the registry has a balance.  A record load_state
\* returns has an entry for every bucket: the file's own value where the file
\* is a record of the current day that has the entry, the bucket's daily limit
\* otherwise.  A record save_state has written has an entry for every bucket.
C15_EveryBucketPresent ==
    [][ \A p \in Procs :
          /\ (Loaded(p) /\ load_state(file, today).ok) =>
                LET got == proc'[p].loaded.buckets
                    kept(b) == /\ file.kind = "object"
                               /\ GetDate(file) = today
                               /\ "buckets" \in file.keys
                               /\ b \in DOMAIN file.buckets
                IN  /\ BucketIds \subseteq DOMAIN got
                    /\ \A b \in BucketIds :
                          got[b] = IF kept(b) THEN file.buckets[b]
                                   ELSE DAILY_LIMITS[b]
          /\ Committed(p) =>
                /\ file'.kind = "object"
                /\ "buckets" \in file'.keys
                /\ BucketIds \subseteq DOMAIN file'.buckets
      ]_vars

C15_Witness ==
    /\ file.kind = "object"
    /\ file.keys = AllKeys
    /\ file.date = today
    /\ file.bucketsIsMap
    /\ DOMAIN file.buckets = {"tokens_250k"}
    /\ file.buckets["tokens_250k"] = 10
    /\ proc[1].pc = "done"
    /\ proc[1].cmd = "status"
    /\ proc[1].exit = 0
    /\ proc[1].loaded = load_state(file, today).state
    /\ proc[1].loaded.buckets["tokens_250k"] = 10
    /\ proc[1].loaded.buckets["tokens_2_5m"] = DAILY_LIMITS["tokens_2_5m"]

\* C16: status is read-only and always succeeds.  A status invocation leaves
\* the state file as it found it, whatever the file holds, and ends with
\* exit status 0.
C16_StatusReadOnly ==
    [][ \A p \in Procs :
          (Started(p) /\ proc'[p].cmd = "status") =>
             /\ file' = file
             /\ proc'[p].pc = "done"
             /\ proc'[p].exit = 0
      ]_vars

\* C17: the allowlist decides the bucket, and a name outside it is never
\* admitted.  bucket_for_model gives a bucket that has a daily limit for
\* every name of the allowlist and None for every other name; every request
\* that was admitted named, once stripped and lower-cased, a model of the
\* allowlist and was charged to that model's bucket; a request whose name is
\* outside the allowlist ends denied with exit status 1.
C17_UnknownNeverAdmitted ==
    LET typed == ModelChoices \cup {StripLower(m) : m \in ModelChoices}
                    \cup {"", "None"}
        others == typed \ DOMAIN MODEL_BUCKETS
    IN  /\ \A m \in DOMAIN MODEL_BUCKETS :
              bucket_for_model(m) \in DOMAIN DAILY_LIMITS
        /\ \A m \in others :
              /\ bucket_for_model(m) = None
              /\ bucket_for_model(m) \notin DOMAIN DAILY_LIMITS
        /\ \A p \in Procs :
              LET q == proc[p]
                  model == StripLower(q.model)
              IN  /\ q.outcome = "Admitted" =>
                        /\ model \in DOMAIN MODEL_BUCKETS
                        /\ q.bucket = MODEL_BUCKETS[model]
                        /\ q.bucket \in DOMAIN DAILY_LIMITS
                  /\ (q.cmd = "request" /\ model \notin DOMAIN MODEL_BUCKETS) =>
                        /\ q.pc = "done"
                        /\ q.outcome \in {"DeniedByPlan", "DeniedUnknownResource"}
                        /\ q.exit = 1

C17_Witness ==
    /\ proc[1].pc = "done"
    /\ proc[1].cmd = "request"
    /\ proc[1].model = "gpt-1"
    /\ proc[1].tokens = 100
    /\ proc[1].bucket = None
    /\ proc[1].loaded.plan_tokens_left = 0
    /\ \A b \in BucketIds : proc[1].loaded.buckets[b] >= 100
    /\ proc[1].outcome = "DeniedUnknownResource"
    /\ proc[1].exit = 1
    /\ file.kind = "object"

\* C18: balances of one day are never carried into another.  A record a
\* save has written under date d holds balances computed from a load made on
\* day d, or every bucket at its daily limit: so the first load after a
\* change of date finds nothing debited on the day before.
C18_NoCarryOver ==
    [][ \A p \in Procs :
          Committed(p) =>
             \/ file'.date = proc[p].loaded.date
             \/ file'.buckets = DAILY_LIMITS
      ]_vars

\* C19: the daily cap under sequential use.  On a day that began from a
\* fresh or rolled-over record, with the invocations run one after another
\* and no reset so far that day, the tokens of the requests admitted that
\* day add up, per bucket, to at most the bucket's daily limit, and to
\* exactly the limit minus the balance the record now holds for the day.
C19_DailyCap ==
    (ledger.clean /\ \A p \in Procs : proc[p].pc \in {"idle", "done"}) =>
       \A b \in BucketIds :
          /\ ledger.spent[b] <= DAILY_LIMITS[b]
          /\ ledger.spent[b] =
                DAILY_LIMITS[b] - load_state(file, today).state.buckets[b]

C19_Witness ==
    /\ today = 1
    /\ ledger.clean
    /\ ledger.spent["tokens_250k"] = DAILY_LIMITS["tokens_250k"]
    /\ proc[1].pc = "done"
    /\ proc[1].cmd = "request"
    /\ proc[1].tokens = 100
    /\ proc[1].outcome = "Admitted"
    /\ file.kind = "object"
    /\ file.date = today
    /\ file.buckets["tokens_250k"] = 0

\* C20: the persisted record stays within its bounds.  Starting without a
\* state file, whatever invocations and day changes follow, a record in the
\* file has every bucket of the registry, each balance at most the bucket's
\* daily limit, and plan tokens that are not negative.
C20_UpperBound ==
    file.kind = "object" =>
       /\ BucketIds \subseteq DOMAIN file.buckets
       /\ \A b \in BucketIds : file.buckets[b] <= DAILY_LIMITS[b]
       /\ file.plan_tokens_left >= 0

C20_Witness ==
    /\ today = 1
    /\ file.kind = "object"
    /\ file.date = 0
    /\ file.buckets["tokens_250k"] = DAILY_LIMITS["tokens_250k"] - 100
    /\ file.buckets["tokens_2_5m"] = DAILY_LIMITS["tokens_2_5m"]
    /\ file.plan_tokens_left = 500
    /\ proc[1].pc = "done"
    /\ proc[1].cmd = "request"
    /\ proc[1].tokens = -5
    /\ proc[1].outcome = "DeniedByPlan"

====
